---- MODULE Spec2Model ----
(***************************************************************************)
(* Model of src/src/main.rs: a driver (main) that runs two pipelines on    *)
(* one tokio runtime.  app spawns two request tasks and awaits their       *)
(* handles one after the other; app_cpu_intensive spawns get_and_analyze   *)
(* chains, joins them all with join_all, scans the outcomes in order and   *)
(* logs a ratio.  Each chain fetches, decodes the body and hands analyze   *)
(* to the blocking pool with spawn_blocking.                               *)
(***************************************************************************)
EXTENDS Integers, Sequences, FiniteSets, TLC

VARIABLES pc, req, reqAwaited, appRes, chain, futures, chainAwaited, results,
          idx, total_ones, total_zeroes, cpuRes, log, exitCode, firstFailed,
          reqIssued, unit

vars == <<pc, req, reqAwaited, appRes, chain, futures, chainAwaited, results,
          idx, total_ones, total_zeroes, cpuRes, log, exitCode, firstFailed,
          reqIssued, unit>>

\* firstFailed is a history variable: the label of the chain that failed first
\* in time, 0 while none has.  It records the order of events and guards nothing.
\* reqIssued[k] counts the calls of reqwest::get made by request task k.
\* unit holds the argument and the result of one operation run on its own; it
\* stays Idle while the program runs.

progVars == <<pc, req, reqAwaited, appRes, chain, futures, chainAwaited, results,
              idx, total_ones, total_zeroes, cpuRes, log, exitCode, firstFailed,
              reqIssued>>

appVars == <<req, reqAwaited, appRes, reqIssued>>
cpuVars == <<chain, futures, chainAwaited, results, idx, total_ones,
             total_zeroes, cpuRes>>

(* ---------------------------- bounds ----------------------------------- *)
\* Number of get_and_analyze chains the loop `for i in 1..=10` spawns,
\* scaled down; the loop is uniform in its upper limit.
NChains == 2
\* Worker threads of the async lane (tokio uses one per core).
AsyncWorkers == 1

(* ----------------------- program constants ----------------------------- *)
\* The two request tasks of app.
NRequests == 2
\* Bits in a u8, as counted by count_ones / count_zeros.
ByteBits == 8
\* The delay every request asks of the endpoint: slowly(1000).
DelayMs == 1000

Labels == 1..NRequests
Chains == 1..NChains

\* Decoded response bodies the chains are run on: empty, "A" and DEL.
Payloads == {<<>>, <<65>>, <<127>>}

(* ------------------------------ analyze -------------------------------- *)
Bit(b, k) == (b \div (2 ^ k)) % 2

\* Mutation: the top bit of the byte is not counted.
count_ones_low7(b) == Cardinality({k \in 0..(ByteBits - 2) : Bit(b, k) = 1})

\* u8::count_ones
count_ones(b) == Cardinality({k \in 0..(ByteBits - 1) : Bit(b, k) = 1})

\* Mutation: the top bit of the byte is not counted.
count_zeros_low7(b) == Cardinality({k \in 0..(ByteBits - 2) : Bit(b, k) = 0})

\* u8::count_zeros
count_zeros(b) == Cardinality({k \in 0..(ByteBits - 1) : Bit(b, k) = 0})

RECURSIVE FoldOnes(_, _)
FoldOnes(txt, acc) ==
    IF txt = <<>> THEN acc
    ELSE FoldOnes(Tail(txt), acc + count_ones(Head(txt)))

RECURSIVE FoldZeros(_, _)
FoldZeros(txt, acc) ==
    IF txt = <<>> THEN acc
    ELSE FoldZeros(Tail(txt), acc + count_zeros(Head(txt)))

analyze(txt) == <<FoldOnes(txt, 0), FoldZeros(txt, 0)>>

(* --------------------------- values ------------------------------------ *)
NoErr == [kind |-> "none", from |-> 0]
Err(k, n) == [kind |-> k, from |-> n]

Info(m) == [sev |-> "INFO", msg |-> m]
Error(m) == [sev |-> "ERROR", msg |-> m]

NewChain == [st |-> "unspawned", txt |-> <<>>, res |-> <<0, 0>>,
             err |-> NoErr, lane |-> "none", issued |-> 0, submitted |-> 0]

ReqDone == {"ok", "neterr", "panicked"}
ChainDone == {"ok", "failed", "panicked"}

\* No operation is being run on its own.
Idle == [op |-> "none"]

ProgramInit ==
    /\ pc = "start"
    /\ req = [k \in Labels |-> "unspawned"]
    /\ reqAwaited = [k \in Labels |-> 0]
    /\ appRes = [tag |-> "none", err |-> NoErr]
    /\ chain = [i \in Chains |-> NewChain]
    /\ futures = <<>>
    /\ chainAwaited = [i \in Chains |-> 0]
    /\ results = <<>>
    /\ idx = 0
    /\ total_ones = 0
    /\ total_zeroes = 0
    /\ cpuRes = [tag |-> "none", err |-> NoErr]
    /\ log = <<>>
    /\ exitCode = -1
    /\ firstFailed = 0
    /\ reqIssued = [k \in Labels |-> 0]

Init ==
    /\ ProgramInit
    /\ unit = Idle

(* ------------------------- execution substrate ------------------------- *)
\* Mutation: analyze(&txt) is called in the task itself, on the async lane.
AnalysisInline == "async"

\* Where get_and_analyze runs analyze: task::spawn_blocking puts it on the
\* blocking pool.
AnalysisLane == "blocking"

\* Async-lane workers held by a synchronous computation.
AsyncBusy ==
    Cardinality({i \in Chains : chain[i].st = "analyzing" /\ chain[i].lane = "async"})

\* A task can be polled only by an async-lane worker that is not held.
AsyncLaneFree == AsyncBusy < AsyncWorkers

(* --------------------------- fetch collaborator ------------------------ *)
\* What reqwest::get can resolve to: Err(cause), or Ok(response) with the
\* response's status, whatever that status is.
Statuses == {200, 404, 500}
Causes == {"connect", "timeout"}

NetErr(c) == [kind |-> "err", cause |-> c, status |-> 0]
Response(st) == [kind |-> "resp", cause |-> "none", status |-> st]

NetOutcomes == {NetErr(c) : c \in Causes} \cup {Response(st) : st \in Statuses}

\* format!("https://deelay.me//https:/{}/google.com", delay_ms)
Format(delay_ms) ==
    [scheme |-> "https", sep |-> "://", host |-> "deelay.me",
     path |-> <<"//https:/", delay_ms, "/google.com">>]

\* reqwest::Url::parse succeeds on a text with a scheme, "://" and a host.
UrlParses(u) == u.scheme # "" /\ u.sep = "://" /\ u.host # ""

\* slowly: the parsed URL, or the panic of unwrap() on a text that does not parse.
slowly(delay_ms) ==
    IF UrlParses(Format(delay_ms))
    THEN [ok |-> TRUE, url |-> Format(delay_ms)]
    ELSE [ok |-> FALSE, url |-> Format(delay_ms)]

\* Mutation: reqwest::get(..).await?.error_for_status()? - a response with a
\* non-success status is turned into an error.
requestCheckingStatus(n, net) ==
    IF ~slowly(DelayMs).ok THEN [res |-> "panicked", cause |-> "url", log |-> <<>>]
    ELSE IF net.kind = "err" THEN [res |-> "neterr", cause |-> net.cause, log |-> <<>>]
    ELSE IF net.status # 200 THEN [res |-> "neterr", cause |-> "status", log |-> <<>>]
    ELSE [res |-> "ok", cause |-> "none", log |-> <<Info(<<"got response", n>>)>>]

\* request(n), given what reqwest::get resolves to: how the task ends, the
\* cause its error carries, and what it logs.
request(n, net) ==
    IF ~slowly(DelayMs).ok THEN [res |-> "panicked", cause |-> "url", log |-> <<>>]
    ELSE IF net.kind = "err" THEN [res |-> "neterr", cause |-> net.cause, log |-> <<>>]
    ELSE [res |-> "ok", cause |-> "none", log |-> <<Info(<<"got response", n>>)>>]

(* ------------------------------ request -------------------------------- *)
\* First poll of the spawned task: reqwest::get(slowly(1000)) is issued.
RequestStart(k) ==
    /\ req[k] = "spawned"
    /\ AsyncLaneFree
    /\ req' = [req EXCEPT ![k] = "inflight"]
    /\ reqIssued' = [reqIssued EXCEPT ![k] = @ + 1]
    /\ UNCHANGED <<pc, reqAwaited, appRes, cpuVars, log, exitCode, firstFailed, unit>>

\* reqwest::get resolves Ok(response): info!("got response {}", n); Ok(())
RequestOk(k) ==
    /\ req[k] = "inflight"
    /\ AsyncLaneFree
    /\ \E st \in Statuses :
          LET r == request(k, Response(st))
          IN  /\ req' = [req EXCEPT ![k] = r.res]
              /\ log' = log \o r.log
    /\ UNCHANGED <<pc, reqAwaited, appRes, reqIssued, cpuVars, exitCode, firstFailed, unit>>

\* Mutation: a network failure is retried: the task issues the request again.
RequestErrRetry(k) ==
    /\ req[k] = "inflight"
    /\ AsyncLaneFree
    /\ reqIssued' = [reqIssued EXCEPT ![k] = @ + 1]
    /\ UNCHANGED <<pc, req, reqAwaited, appRes, cpuVars, log, exitCode, firstFailed, unit>>

\* reqwest::get resolves Err: `?` returns it from the task.
RequestErr(k) ==
    /\ req[k] = "inflight"
    /\ AsyncLaneFree
    /\ \E c \in Causes :
          LET r == request(k, NetErr(c))
          IN  /\ req' = [req EXCEPT ![k] = r.res]
              /\ log' = log \o r.log
    /\ UNCHANGED <<pc, reqAwaited, appRes, reqIssued, cpuVars, exitCode, firstFailed, unit>>

\* The task panics while polled; its JoinHandle yields a JoinError.
RequestPanic(k) ==
    /\ req[k] = "inflight"
    /\ AsyncLaneFree
    /\ req' = [req EXCEPT ![k] = "panicked"]
    /\ UNCHANGED <<pc, reqAwaited, appRes, reqIssued, cpuVars, log, exitCode, firstFailed, unit>>

(* -------------------------------- app ---------------------------------- *)
\* What `resp.await??` yields for a finished request task.
HandleErr(k) ==
    IF req[k] = "panicked" THEN Err("JoinError", k) ELSE Err("NetworkError", k)

AppSpawn1 ==
    /\ pc = "app_spawn1"
    /\ req' = [req EXCEPT ![1] = "spawned"]
    /\ pc' = "app_spawn2"
    /\ UNCHANGED <<reqAwaited, appRes, reqIssued, cpuVars, log, exitCode, firstFailed, unit>>

\* Mutation: request 2 is spawned only once request 1 has finished.
AppSpawn2AfterFirst ==
    /\ pc = "app_spawn2"
    /\ req[1] \in ReqDone
    /\ req' = [req EXCEPT ![2] = "spawned"]
    /\ pc' = "app_await1"
    /\ UNCHANGED <<reqAwaited, appRes, reqIssued, cpuVars, log, exitCode, firstFailed, unit>>

AppSpawn2 ==
    /\ pc = "app_spawn2"
    /\ req' = [req EXCEPT ![2] = "spawned"]
    /\ pc' = "app_await1"
    /\ UNCHANGED <<reqAwaited, appRes, reqIssued, cpuVars, log, exitCode, firstFailed, unit>>

\* Mutation: handle 1 is looked at only once both tasks have finished (a join
\* of the two handles).
AppAwait1JoinBoth ==
    /\ pc = "app_await1"
    /\ req[1] \in ReqDone
    /\ req[2] \in ReqDone
    /\ reqAwaited' = [reqAwaited EXCEPT ![1] = @ + 1]
    /\ IF req[1] = "ok"
       THEN /\ pc' = "app_await2"
            /\ UNCHANGED appRes
       ELSE /\ pc' = "app_match"
            /\ appRes' = [tag |-> "err", err |-> HandleErr(1)]
    /\ UNCHANGED <<req, reqIssued, cpuVars, log, exitCode, firstFailed, unit>>

\* Mutation: on failure of task 1 the sibling task is aborted before returning.
AppAwait1AbortSibling ==
    /\ pc = "app_await1"
    /\ req[1] \in ReqDone
    /\ reqAwaited' = [reqAwaited EXCEPT ![1] = @ + 1]
    /\ IF req[1] = "ok"
       THEN /\ pc' = "app_await2"
            /\ UNCHANGED <<appRes, req>>
       ELSE /\ pc' = "app_match"
            /\ appRes' = [tag |-> "err", err |-> HandleErr(1)]
            /\ req' = [req EXCEPT ![2] = IF @ \in ReqDone THEN @ ELSE "cancelled"]
    /\ UNCHANGED <<reqIssued, cpuVars, log, exitCode, firstFailed, unit>>

\* Mutation: `let _ = resp1.await?;` - only the JoinError is propagated, the
\* task's own Err is thrown away with the `_`.
AppAwait1SingleTry ==
    /\ pc = "app_await1"
    /\ req[1] \in ReqDone
    /\ reqAwaited' = [reqAwaited EXCEPT ![1] = @ + 1]
    /\ IF req[1] # "panicked"
       THEN /\ pc' = "app_await2"
            /\ UNCHANGED appRes
       ELSE /\ pc' = "app_match"
            /\ appRes' = [tag |-> "err", err |-> HandleErr(1)]
    /\ UNCHANGED <<req, reqIssued, cpuVars, log, exitCode, firstFailed, unit>>

\* let _ = resp1.await??;
AppAwait1 ==
    /\ pc = "app_await1"
    /\ req[1] \in ReqDone
    /\ reqAwaited' = [reqAwaited EXCEPT ![1] = @ + 1]
    /\ IF req[1] = "ok"
       THEN /\ pc' = "app_await2"
            /\ UNCHANGED appRes
       ELSE /\ pc' = "app_match"
            /\ appRes' = [tag |-> "err", err |-> HandleErr(1)]
    /\ UNCHANGED <<req, reqIssued, cpuVars, log, exitCode, firstFailed, unit>>

\* let _ = resp2.await??; Ok(())
AppAwait2 ==
    /\ pc = "app_await2"
    /\ req[2] \in ReqDone
    /\ reqAwaited' = [reqAwaited EXCEPT ![2] = @ + 1]
    /\ appRes' = IF req[2] = "ok" THEN [tag |-> "ok", err |-> NoErr]
                 ELSE [tag |-> "err", err |-> HandleErr(2)]
    /\ pc' = "app_match"
    /\ UNCHANGED <<req, reqIssued, cpuVars, log, exitCode, firstFailed, unit>>

(* -------------------------- get_and_analyze ---------------------------- *)
Fail(c, k, i) == [c EXCEPT !.st = "failed", !.err = Err(k, i)]

\* First poll of the spawned chain: reqwest::get(slowly(1000)) is issued.
ChainStart(i) ==
    /\ chain[i].st = "spawned"
    /\ AsyncLaneFree
    /\ chain' = [chain EXCEPT ![i].st = "fetching", ![i].issued = @ + 1]
    /\ UNCHANGED <<pc, appVars, futures, chainAwaited, results, idx,
                   total_ones, total_zeroes, cpuRes, log, exitCode, firstFailed, unit>>

\* The response arrives: info!("Dataset {}", n); response.text() starts.
FetchOk(i) ==
    /\ chain[i].st = "fetching"
    /\ AsyncLaneFree
    /\ chain' = [chain EXCEPT ![i].st = "reading"]
    /\ log' = Append(log, Info(<<"Dataset", i>>))
    /\ UNCHANGED <<pc, appVars, futures, chainAwaited, results, idx,
                   total_ones, total_zeroes, cpuRes, exitCode, firstFailed, unit>>

\* Mutation: a failed fetch is replaced by an empty body (unwrap_or_default)
\* and analysed.
FetchErrAnalyzed(i) ==
    /\ chain[i].st = "fetching"
    /\ AsyncLaneFree
    /\ chain' = [chain EXCEPT ![i].st = "analyzing", ![i].txt = <<>>,
                              ![i].lane = AnalysisLane, ![i].submitted = @ + 1]
    /\ UNCHANGED <<pc, appVars, futures, chainAwaited, results, idx,
                   total_ones, total_zeroes, cpuRes, log, exitCode, firstFailed, unit>>

\* reqwest::get(..).await? fails.
FetchErr(i) ==
    /\ chain[i].st = "fetching"
    /\ AsyncLaneFree
    /\ chain' = [chain EXCEPT ![i] = Fail(@, "NetworkError", i)]
    /\ UNCHANGED <<pc, appVars, futures, chainAwaited, results, idx,
                   total_ones, total_zeroes, cpuRes, log, exitCode>>
    /\ firstFailed' = IF firstFailed = 0 THEN i ELSE firstFailed
    /\ UNCHANGED unit

\* The chain's task panics while polled; its JoinHandle yields a JoinError.
ChainPanic(i) ==
    /\ chain[i].st = "fetching"
    /\ AsyncLaneFree
    /\ chain' = [chain EXCEPT ![i].st = "panicked"]
    /\ UNCHANGED <<pc, appVars, futures, chainAwaited, results, idx,
                   total_ones, total_zeroes, cpuRes, log, exitCode>>
    /\ firstFailed' = IF firstFailed = 0 THEN i ELSE firstFailed
    /\ UNCHANGED unit

\* Mutation: info!("Processed {}", n) is written before the blocking handle is
\* awaited instead of after.
TextOkProcessedEarly(i, txt) ==
    /\ chain[i].st = "reading"
    /\ AsyncLaneFree
    /\ chain' = [chain EXCEPT ![i].st = "analyzing", ![i].txt = txt,
                              ![i].lane = AnalysisLane, ![i].submitted = @ + 1]
    /\ log' = Append(log, Info(<<"Processed", i>>))
    /\ UNCHANGED <<pc, appVars, futures, chainAwaited, results, idx,
                   total_ones, total_zeroes, cpuRes, exitCode, firstFailed, unit>>

\* response.text().await? yields txt; task::spawn_blocking(move || analyze(&txt))
\* hands the closure to a thread of the lane, which starts it.
TextOk(i, txt) ==
    /\ chain[i].st = "reading"
    /\ AsyncLaneFree
    /\ chain' = [chain EXCEPT ![i].st = "analyzing", ![i].txt = txt,
                              ![i].lane = AnalysisLane, ![i].submitted = @ + 1]
    /\ UNCHANGED <<pc, appVars, futures, chainAwaited, results, idx,
                   total_ones, total_zeroes, cpuRes, log, exitCode, firstFailed, unit>>

\* response.text().await? fails.
TextErr(i) ==
    /\ chain[i].st = "reading"
    /\ AsyncLaneFree
    /\ chain' = [chain EXCEPT ![i] = Fail(@, "DecodeError", i)]
    /\ UNCHANGED <<pc, appVars, futures, chainAwaited, results, idx,
                   total_ones, total_zeroes, cpuRes, log, exitCode>>
    /\ firstFailed' = IF firstFailed = 0 THEN i ELSE firstFailed
    /\ UNCHANGED unit

\* analyze returns (txt is dropped with the closure); the blocking handle
\* completes with its pair.
BlockingFinish(i) ==
    /\ chain[i].st = "analyzing"
    /\ chain' = [chain EXCEPT ![i].st = "analyzed", ![i].res = analyze(chain[i].txt),
                              ![i].txt = <<>>, ![i].lane = "none"]
    /\ UNCHANGED <<pc, appVars, futures, chainAwaited, results, idx,
                   total_ones, total_zeroes, cpuRes, log, exitCode, firstFailed, unit>>

\* The closure panics; the blocking handle completes with a JoinError.
BlockingPanic(i) ==
    /\ chain[i].st = "analyzing"
    /\ chain' = [chain EXCEPT ![i].st = "blockfail", ![i].txt = <<>>,
                              ![i].lane = "none"]
    /\ UNCHANGED <<pc, appVars, futures, chainAwaited, results, idx,
                   total_ones, total_zeroes, cpuRes, log, exitCode, firstFailed, unit>>

\* The chain resumes with Ok(res): info!("Processed {}", n); Ok(res)
ChainProcessed(i) ==
    /\ chain[i].st = "analyzed"
    /\ AsyncLaneFree
    /\ chain' = [chain EXCEPT ![i].st = "ok"]
    /\ log' = Append(log, Info(<<"Processed", i>>))
    /\ UNCHANGED <<pc, appVars, futures, chainAwaited, results, idx,
                   total_ones, total_zeroes, cpuRes, exitCode, firstFailed, unit>>

\* The chain resumes with the JoinError: `.await?` returns it.
ChainJoinErr(i) ==
    /\ chain[i].st = "blockfail"
    /\ AsyncLaneFree
    /\ chain' = [chain EXCEPT ![i] = Fail(@, "JoinError", i)]
    /\ UNCHANGED <<pc, appVars, futures, chainAwaited, results, idx,
                   total_ones, total_zeroes, cpuRes, log, exitCode>>
    /\ firstFailed' = IF firstFailed = 0 THEN i ELSE firstFailed
    /\ UNCHANGED unit

(* -------------------------- app_cpu_intensive -------------------------- *)
\* What join_all hands back for one handle: Result<Result<(u64, u64)>, JoinError>.
Outcome(i) ==
    CASE chain[i].st = "ok" ->
            [tag |-> "ok", pair |-> chain[i].res, err |-> NoErr]
      [] chain[i].st = "failed" ->
            [tag |-> "err", pair |-> <<0, 0>>, err |-> chain[i].err]
      [] OTHER ->
            [tag |-> "err", pair |-> <<0, 0>>, err |-> Err("JoinError", i)]

\* Mutation: the join resolves as soon as one future has completed.
JoinReadyFirst == \E n \in 1..Len(futures) : chain[futures[n]].st \in ChainDone

\* join_all resolves once every future of the vector has completed.
\* Mutation: the join resolves only when every chain has succeeded.
JoinReadyAllOk == \A n \in 1..Len(futures) : chain[futures[n]].st = "ok"

JoinReady == \A n \in 1..Len(futures) : chain[futures[n]].st \in ChainDone

\* for i in 1..=N { futures.push(task::spawn(get_and_analyze(i))) }
CpuSpawn ==
    /\ pc = "cpu_spawn"
    /\ LET i == Len(futures) + 1
       IN  /\ chain' = [chain EXCEPT ![i].st = "spawned"]
           /\ futures' = Append(futures, i)
           /\ pc' = IF i = NChains THEN "cpu_join" ELSE "cpu_spawn"
    /\ UNCHANGED <<appVars, chainAwaited, results, idx, total_ones,
                   total_zeroes, cpuRes, log, exitCode, firstFailed, unit>>

\* Mutation: the join gives up at the first failed chain (try_join_all): the
\* handles of the chains still running are dropped without being awaited.
CpuJoinAllTry ==
    /\ pc = "cpu_join"
    /\ JoinReady \/ \E n \in 1..Len(futures) : chain[futures[n]].st \in {"failed", "panicked"}
    /\ results' = [n \in 1..Len(futures) |-> Outcome(futures[n])]
    /\ chainAwaited' = [i \in Chains |->
                          chainAwaited[i]
                          + Cardinality({n \in 1..Len(futures) :
                                futures[n] = i /\ chain[i].st \in ChainDone})]
    /\ total_ones' = 0
    /\ total_zeroes' = 0
    /\ idx' = 1
    /\ pc' = "cpu_scan"
    /\ UNCHANGED <<appVars, chain, futures, cpuRes, log, exitCode, firstFailed, unit>>

\* let results = join_all(futures).await; let mut total_ones = 0; ...
CpuJoinAll ==
    /\ pc = "cpu_join"
    /\ JoinReady
    /\ results' = [n \in 1..Len(futures) |-> Outcome(futures[n])]
    /\ chainAwaited' = [i \in Chains |->
                          chainAwaited[i]
                          + Cardinality({n \in 1..Len(futures) : futures[n] = i})]
    /\ total_ones' = 0
    /\ total_zeroes' = 0
    /\ idx' = 1
    /\ pc' = "cpu_scan"
    /\ UNCHANGED <<appVars, chain, futures, cpuRes, log, exitCode, firstFailed, unit>>

\* Mutation: the outcomes are taken from the back of the vector.
ScanItemFromBack == results[Len(results) + 1 - idx]

\* The element `for result in results` yields at its idx-th iteration.
ScanItem == results[idx]

\* Mutation: the ones of a pair are added to both sums.
CpuScanOnesTwice ==
    /\ pc = "cpu_scan"
    /\ LET r == ScanItem
       IN  IF r.tag = "err"
           THEN /\ cpuRes' = [tag |-> "err", err |-> r.err]
                /\ pc' = "cpu_match"
                /\ UNCHANGED <<idx, total_ones, total_zeroes>>
           ELSE /\ total_ones' = total_ones + r.pair[1]
                /\ total_zeroes' = total_zeroes + r.pair[1]
                /\ idx' = idx + 1
                /\ pc' = IF idx = Len(results) THEN "cpu_ratio" ELSE "cpu_scan"
                /\ UNCHANGED cpuRes
    /\ UNCHANGED <<appVars, chain, futures, chainAwaited, results, log, exitCode, firstFailed, unit>>

\* Mutation: a failed outcome is skipped instead of returned with `?`.
CpuScanSkipErr ==
    /\ pc = "cpu_scan"
    /\ LET r == ScanItem
       IN  /\ total_ones' = total_ones + r.pair[1]
           /\ total_zeroes' = total_zeroes + r.pair[2]
           /\ idx' = idx + 1
           /\ pc' = IF idx = Len(results) THEN "cpu_ratio" ELSE "cpu_scan"
           /\ UNCHANGED cpuRes
    /\ UNCHANGED <<appVars, chain, futures, chainAwaited, results, log, exitCode, firstFailed, unit>>

\* One iteration of `for result in results`.
CpuScan ==
    /\ pc = "cpu_scan"
    /\ LET r == ScanItem
       IN  IF r.tag = "err"
           THEN /\ cpuRes' = [tag |-> "err", err |-> r.err]
                /\ pc' = "cpu_match"
                /\ UNCHANGED <<idx, total_ones, total_zeroes>>
           ELSE /\ total_ones' = total_ones + r.pair[1]
                /\ total_zeroes' = total_zeroes + r.pair[2]
                /\ idx' = idx + 1
                /\ pc' = IF idx = Len(results) THEN "cpu_ratio" ELSE "cpu_scan"
                /\ UNCHANGED cpuRes
    /\ UNCHANGED <<appVars, chain, futures, chainAwaited, results, log, exitCode, firstFailed, unit>>

\* total_ones as f64 / total_zeroes as f64
FDiv(a, b) ==
    IF b # 0 THEN [k |-> "fin", n |-> a, d |-> b]
    ELSE IF a # 0 THEN [k |-> "inf", n |-> 0, d |-> 0]
    ELSE [k |-> "NaN", n |-> 0, d |-> 0]

\* "{:.02}": a finite quotient is printed in hundredths, nearest, ties to even.
Fmt2(q) ==
    IF q.k # "fin" THEN [k |-> q.k, h |-> 0]
    ELSE LET n100 == 100 * q.n
             fl == n100 \div q.d
             rem == n100 % q.d
         IN  [k |-> "fin",
              h |-> IF 2 * rem > q.d THEN fl + 1
                    ELSE IF 2 * rem < q.d THEN fl
                    ELSE IF fl % 2 = 0 THEN fl ELSE fl + 1]

\* info!("Ratio of ones/zeros: {:.02}", ...); Ok(())
CpuRatio ==
    /\ pc = "cpu_ratio"
    /\ log' = Append(log, Info(<<"Ratio of ones/zeros",
                                 Fmt2(FDiv(total_ones, total_zeroes))>>))
    /\ cpuRes' = [tag |-> "ok", err |-> NoErr]
    /\ pc' = "cpu_match"
    /\ UNCHANGED <<appVars, chain, futures, chainAwaited, results, idx,
                   total_ones, total_zeroes, exitCode, firstFailed, unit>>

(* -------------------------------- main --------------------------------- *)
\* tokio::runtime::Runtime::new().unwrap() succeeds.
RuntimeNew ==
    /\ pc = "start"
    /\ pc' = "log_start_app"
    /\ UNCHANGED <<appVars, cpuVars, log, exitCode, firstFailed, unit>>

\* tokio::runtime::Runtime::new().unwrap() panics: the process ends with 101.
RuntimeNewFail ==
    /\ pc = "start"
    /\ pc' = "exited"
    /\ exitCode' = 101
    /\ UNCHANGED <<appVars, cpuVars, log, firstFailed, unit>>

LogStartApp ==
    /\ pc = "log_start_app"
    /\ log' = Append(log, Info(<<"starting simple concurrent program">>))
    /\ pc' = "app_spawn1"
    /\ UNCHANGED <<appVars, cpuVars, exitCode, firstFailed, unit>>

OutcomeEntry(r) ==
    IF r.tag = "ok" THEN Info(<<"Done">>) ELSE Error(<<"Error", r.err>>)

\* Mutation: the result of block_on is dropped and "Done" is logged whatever
\* it was.
AppOutcomeAlwaysDone ==
    /\ pc = "app_match"
    /\ log' = Append(log, Info(<<"Done">>))
    /\ pc' = "log_finished_app"
    /\ UNCHANGED <<appVars, cpuVars, exitCode, firstFailed, unit>>

\* match rt.block_on(app()) { Ok(_) => info!("Done"), Err(e) => error!(..) }
AppOutcome ==
    /\ pc = "app_match"
    /\ log' = Append(log, OutcomeEntry(appRes))
    /\ pc' = "log_finished_app"
    /\ UNCHANGED <<appVars, cpuVars, exitCode, firstFailed, unit>>

LogFinishedApp ==
    /\ pc = "log_finished_app"
    /\ log' = Append(log, Info(<<"finished concurrent program">>))
    /\ pc' = "log_start_cpu"
    /\ UNCHANGED <<appVars, cpuVars, exitCode, firstFailed, unit>>

LogStartCpu ==
    /\ pc = "log_start_cpu"
    /\ log' = Append(log, Info(<<"starting cpu intensive concurrent program">>))
    /\ pc' = "cpu_spawn"
    /\ UNCHANGED <<appVars, cpuVars, exitCode, firstFailed, unit>>

\* match rt.block_on(app_cpu_intensive()) { ... }
CpuOutcome ==
    /\ pc = "cpu_match"
    /\ log' = Append(log, OutcomeEntry(cpuRes))
    /\ pc' = "log_finished_cpu"
    /\ UNCHANGED <<appVars, cpuVars, exitCode, firstFailed, unit>>

LogFinishedCpu ==
    /\ pc = "log_finished_cpu"
    /\ log' = Append(log, Info(<<"finished concurrent program">>))
    /\ pc' = "main_ret"
    /\ UNCHANGED <<appVars, cpuVars, exitCode, firstFailed, unit>>

\* What dropping the runtime does to a task: one that has not finished is
\* dropped at its await point.
Shutdown(st) == IF st \in {"spawned", "inflight"} THEN "cancelled" ELSE st

\* Mutation: a failed pipeline is turned into exit code 1.
MainReturnPropagate ==
    /\ pc = "main_ret"
    /\ req' = [k \in Labels |-> Shutdown(req[k])]
    /\ exitCode' = IF appRes.tag = "err" \/ cpuRes.tag = "err" THEN 1 ELSE 0
    /\ pc' = "exited"
    /\ UNCHANGED <<reqAwaited, appRes, reqIssued, cpuVars, log, firstFailed, unit>>

\* main returns: `rt` is dropped and the process exits with 0.
MainReturn ==
    /\ pc = "main_ret"
    /\ req' = [k \in Labels |-> Shutdown(req[k])]
    /\ exitCode' = 0
    /\ pc' = "exited"
    /\ UNCHANGED <<reqAwaited, appRes, reqIssued, cpuVars, log, firstFailed, unit>>

Driver ==
    \/ RuntimeNew \/ RuntimeNewFail \/ LogStartApp
    \/ AppSpawn1 \/ AppSpawn2 \/ AppAwait1 \/ AppAwait2
    \/ AppOutcome \/ LogFinishedApp \/ LogStartCpu
    \/ CpuSpawn \/ CpuJoinAll \/ CpuScan \/ CpuRatio
    \/ CpuOutcome \/ LogFinishedCpu \/ MainReturn

RequestTask(k) ==
    \/ RequestStart(k) \/ RequestOk(k) \/ RequestErr(k) \/ RequestPanic(k)

ChainTask(i) ==
    \/ ChainStart(i) \/ FetchOk(i) \/ FetchErr(i) \/ ChainPanic(i)
    \/ (\E txt \in Payloads : TextOk(i, txt)) \/ TextErr(i)
    \/ ChainProcessed(i) \/ ChainJoinErr(i)

BlockingTask(i) ==
    \/ BlockingFinish(i) \/ BlockingPanic(i)

\* Tasks run only while the runtime lives.
Running == pc # "exited"

Next ==
    \/ Driver
    \/ Running /\ (\E k \in Labels : RequestTask(k))
    \/ Running /\ (\E i \in Chains : ChainTask(i))
    \/ Running /\ (\E i \in Chains : BlockingTask(i))

Spec == Init /\ [][Next]_vars

\* The driver is one thread that runs whenever it can; nothing is assumed of
\* the network, so a request may stay in flight for ever.
SpecDriverFair == Spec /\ WF_vars(Driver)

\* Fair scheduling: the driver thread and every spawned task are polled
\* whenever they can take a step while the runtime lives, so every request
\* issued resolves and every analysis submitted finishes, one way or another.
SpecFair ==
    /\ Spec
    /\ WF_vars(Driver)
    /\ \A k \in Labels : WF_vars(Running /\ RequestTask(k))
    /\ \A i \in Chains : WF_vars(Running /\ ChainTask(i))
    /\ \A i \in Chains : WF_vars(Running /\ BlockingTask(i))

(* ------------------- operations run on their own ----------------------- *)
\* Longest byte sequence analyze is run on.
MaxLen == 3

\* Byte values: NUL, 'A', DEL, the two bytes of U+00E9, and 0xFF.
UnitBytes == {0, 65, 127, 195, 169, 255}

RECURSIVE ByteSeqs(_)
ByteSeqs(n) ==
    IF n = 0 THEN {<<>>}
    ELSE LET S == ByteSeqs(n - 1)
         IN  S \cup {Append(t, b) : t \in {x \in S : Len(x) = n - 1}, b \in UnitBytes}

NoOut == [res |-> "none", cause |-> "none", log |-> <<>>, pair |-> <<0, 0>>, ok |-> FALSE]

UnitCall(op, n, net, txt, d) ==
    [op |-> op, n |-> n, net |-> net, txt |-> txt, d |-> d, done |-> FALSE, out |-> NoOut]

UnitInputs ==
    {UnitCall("request", n, net, <<>>, DelayMs) : n \in Labels, net \in NetOutcomes}
    \cup {UnitCall("analyze", 0, NetErr("none"), txt, 0) : txt \in ByteSeqs(MaxLen)}
    \cup {UnitCall("slowly", 0, NetErr("none"), <<>>, d) : d \in {0, 1, DelayMs}}

InitUnit ==
    /\ ProgramInit
    /\ unit \in UnitInputs

UnitRequest ==
    /\ unit.op = "request"
    /\ ~unit.done
    /\ LET r == request(unit.n, unit.net)
       IN  unit' = [unit EXCEPT !.done = TRUE,
                                !.out = [NoOut EXCEPT !.res = r.res, !.cause = r.cause,
                                                      !.log = r.log]]
    /\ UNCHANGED progVars

UnitAnalyze ==
    /\ unit.op = "analyze"
    /\ ~unit.done
    /\ unit' = [unit EXCEPT !.done = TRUE, !.out = [NoOut EXCEPT !.pair = analyze(unit.txt)]]
    /\ UNCHANGED progVars

UnitSlowly ==
    /\ unit.op = "slowly"
    /\ ~unit.done
    /\ unit' = [unit EXCEPT !.done = TRUE, !.out = [NoOut EXCEPT !.ok = slowly(unit.d).ok]]
    /\ UNCHANGED progVars

NextUnit == UnitRequest \/ UnitAnalyze \/ UnitSlowly

SpecUnit == InitUnit /\ [][NextUnit]_vars

(* =============================== claims ================================ *)
ReqFailed == {"neterr", "panicked"}
ChainFailed == {"failed", "panicked"}

AppReturned == appRes.tag # "none"
CpuReturned == cpuRes.tag # "none"

RatioLogged == \E n \in DOMAIN log : log[n].msg[1] = "Ratio of ones/zeros"

\* The error a finished, failed request task hands to its awaiter.
ReqFailure(k) ==
    [tag |-> "err",
     err |-> [kind |-> IF req[k] = "panicked" THEN "JoinError" ELSE "NetworkError",
              from |-> k]]

\* C1: once app has returned, its outcome is label 1's failure if task 1
\* failed (whatever task 2 did or is doing), label 2's failure if task 1
\* succeeded and task 2 failed, and success if both succeeded.
C1_FetchPipelineOutcome ==
    AppReturned =>
        /\ req[1] \in ReqFailed => appRes = ReqFailure(1)
        /\ (req[1] = "ok" /\ req[2] \in ReqFailed) => appRes = ReqFailure(2)
        /\ (req[1] = "ok" /\ req[2] = "ok") => appRes.tag = "ok"
        /\ req[1] \in ReqDone
        /\ req[1] = "ok" => req[2] \in ReqDone

\* Both tasks failed, with different errors, and the outcome is label 1's.
C1_Witness ==
    /\ AppReturned
    /\ req[1] = "neterr"
    /\ req[2] = "panicked"
    /\ appRes.err = [kind |-> "NetworkError", from |-> 1]

AnyChainFailed == \E i \in Chains : chain[i].st \in ChainFailed

\* C2: if any chain failed (its own error or a join error of its task), the
\* ratio entry is never logged and the pipeline, once it returns, returns a
\* failure.
C2_FailureMeansNoRatio ==
    AnyChainFailed =>
        /\ ~RatioLogged
        /\ pc # "cpu_ratio"
        /\ CpuReturned => cpuRes.tag = "err"

\* The pipeline returned a failure although another chain succeeded.
C2_Witness ==
    /\ CpuReturned
    /\ cpuRes.tag = "err"
    /\ \E i \in Chains : chain[i].st = "ok"
    /\ \E i \in Chains : chain[i].st = "panicked"

AllChainsDone == \A i \in Chains : chain[i].st \in ChainDone

\* C3: no outcome is available to the scan, neither sum has left 0 and the
\* pipeline has not returned until every spawned chain has completed.
C3_FanIn ==
    (\/ results # <<>>
     \/ idx # 0
     \/ total_ones # 0
     \/ total_zeroes # 0
     \/ pc \in {"cpu_scan", "cpu_ratio", "cpu_match"}
     \/ CpuReturned)
        => AllChainsDone

\* The scan is at its first outcome; the chains ended in success and failure.
C3_Witness ==
    /\ pc = "cpu_scan"
    /\ idx = 1
    /\ \E i \in Chains : chain[i].st = "ok"
    /\ \E i \in Chains : chain[i].st = "failed"

FailedLabels == {i \in Chains : chain[i].st \in ChainFailed}
LowestFailed == CHOOSE i \in FailedLabels : \A j \in FailedLabels : i <= j

\* The error chain i's handle yields, read off the chain.
ChainFailure(i) ==
    IF chain[i].st = "panicked" THEN [kind |-> "JoinError", from |-> i]
    ELSE chain[i].err

RECURSIVE SumOnes(_)
SumOnes(n) == IF n = 0 THEN 0 ELSE SumOnes(n - 1) + chain[n].res[1]

RECURSIVE SumZeros(_)
SumZeros(n) == IF n = 0 THEN 0 ELSE SumZeros(n - 1) + chain[n].res[2]

\* C4: when the pipeline returns a failure, it is the failure of the
\* lowest-labelled failing chain, and the sums hold exactly the pairs of the
\* chains labelled below it: nothing of a higher-labelled chain was added.
C4_LowestLabelWins ==
    (CpuReturned /\ cpuRes.tag = "err") =>
        /\ FailedLabels # {}
        /\ cpuRes.err = ChainFailure(LowestFailed)
        /\ total_ones = SumOnes(LowestFailed - 1)
        /\ total_zeroes = SumZeros(LowestFailed - 1)

\* Two chains failed, the higher-labelled one first in time; the outcome is
\* the lower-labelled one's failure.
C4_Witness ==
    /\ CpuReturned
    /\ Cardinality(FailedLabels) >= 2
    /\ firstFailed > LowestFailed
    /\ cpuRes.err = ChainFailure(LowestFailed)
    /\ cpuRes.err # ChainFailure(firstFailed)

AllChainsOk == \A i \in Chains : chain[i].st = "ok"

\* The value the ratio entry of the log carries.
RatioEntry ==
    log[CHOOSE n \in DOMAIN log : log[n].msg[1] = "Ratio of ones/zeros"].msg[2]

Abs(x) == IF x < 0 THEN -x ELSE x

\* The sums are those of all pairs, and a finite ratio is printed to the
\* nearest hundredth of (sum of ones) / (sum of zeros).
RatioOfSums ==
    /\ AllChainsOk
    /\ total_ones = SumOnes(NChains)
    /\ total_zeroes = SumZeros(NChains)
    /\ SumZeros(NChains) > 0 =>
          /\ RatioEntry.k = "fin"
          /\ 2 * Abs(100 * SumOnes(NChains) - RatioEntry.h * SumZeros(NChains))
                <= SumZeros(NChains)

\* C5 as stated: when all chains succeeded the sums are the sums of the pairs,
\* the ratio is their quotient, and the ratio is +infinity whenever the sum of
\* zeros is 0.
C5_InfinityWheneverNoZeros ==
    RatioLogged =>
        /\ RatioOfSums
        /\ SumZeros(NChains) = 0 => RatioEntry.k = "inf"

\* C5 as amended: the same, but with the sum of zeros 0 the ratio is
\* +infinity only if the sum of ones is positive, and NaN if it is 0 too.
C5_RatioOfSums ==
    RatioLogged =>
        /\ RatioOfSums
        /\ (SumZeros(NChains) = 0 /\ SumOnes(NChains) > 0) => RatioEntry.k = "inf"
        /\ (SumZeros(NChains) = 0 /\ SumOnes(NChains) = 0) => RatioEntry.k = "NaN"

\* The ratio was logged for chains that returned different, non-empty pairs.
C5_Witness ==
    /\ RatioLogged
    /\ chain[1].res = <<2, 6>>
    /\ chain[2].res = <<7, 1>>
    /\ RatioEntry.k = "fin"

\* C6: request 2 is spawned without waiting for request 1 (the spawn is
\* enabled whatever task 1 is doing), no handle is awaited before both tasks
\* are spawned, and a spawned request 2 can start whatever request 1 is doing.
C6_EagerSpawn ==
    /\ pc = "app_spawn2" => ENABLED AppSpawn2
    /\ \A k \in Labels : reqAwaited[k] > 0 => \A j \in Labels : req[j] # "unspawned"
    /\ pc = "app_await1" => \A j \in Labels : req[j] # "unspawned"
    /\ (req[2] = "spawned" /\ Running) => ENABLED RequestStart(2)

\* Both requests are in flight at the same time, before anything was awaited.
C6_Witness ==
    /\ req[1] = "inflight"
    /\ req[2] = "inflight"
    /\ pc = "app_await1"
    /\ reqAwaited = [k \in Labels |-> 0]

OutcomeIdx == {n \in DOMAIN log : log[n].msg[1] \in {"Done", "Error"}}

\* The entry main logs for a pipeline that returned r.
Logged(r) ==
    IF r.tag = "ok" THEN [sev |-> "INFO", msg |-> <<"Done">>]
    ELSE [sev |-> "ERROR", msg |-> <<"Error", r.err>>]

CpuStarted ==
    \/ pc \in {"cpu_spawn", "cpu_join", "cpu_scan", "cpu_ratio", "cpu_match",
               "log_finished_cpu", "main_ret"}
    \/ \E i \in Chains : chain[i].st # "unspawned"

\* C7: the Fetch Pipeline's outcome is in the log before the Fetch+Analyze
\* Pipeline starts, the Fetch+Analyze Pipeline's outcome is in the log before
\* the process exits, and a process that ran the pipelines exits with 0
\* whatever their outcomes were.
C7_DriverOrder ==
    /\ CpuStarted =>
          /\ AppReturned
          /\ \E n \in OutcomeIdx : log[n] = Logged(appRes)
    /\ \A n \in DOMAIN log :
          log[n].msg[1] = "starting cpu intensive concurrent program" =>
             \E m \in OutcomeIdx : m < n /\ log[m] = Logged(appRes)
    /\ (pc = "exited" /\ AppReturned) =>
          /\ exitCode = 0
          /\ CpuReturned
          /\ Cardinality(OutcomeIdx) = 2
          /\ \E m, n \in OutcomeIdx :
                m < n /\ log[m] = Logged(appRes) /\ log[n] = Logged(cpuRes)

\* Both pipelines failed with the join error of a panicked task; exit code 0.
C7_Witness ==
    /\ pc = "exited"
    /\ exitCode = 0
    /\ appRes.err.kind = "JoinError"
    /\ cpuRes.err.kind = "JoinError"

Spawned(st) == st # "unspawned"

\* C8 as stated: every spawned task has run to completion by the time the
\* driver has finished.
C8_EveryTaskCompletes ==
    pc = "exited" =>
        /\ \A k \in Labels : Spawned(req[k]) => req[k] \in ReqDone
        /\ \A i \in Chains : Spawned(chain[i].st) => chain[i].st \in ChainDone

\* C8 as amended: no pipeline cancels a task - a task leaves its pending
\* states only by completing, or by being dropped in the step in which main
\* returns and the runtime is torn down; a pending request can complete as
\* long as the runtime lives; and the chains have all completed at exit.
C8_CancelledOnlyAtExit ==
    /\ [](\A k \in Labels : (req[k] = "inflight" /\ Running) => ENABLED RequestOk(k))
    /\ [](pc = "exited" =>
            \A i \in Chains : Spawned(chain[i].st) => chain[i].st \in ChainDone)
    /\ [][\A k \in Labels :
            (req[k] \in {"spawned", "inflight"} /\ req'[k] # req[k]) =>
               \/ req'[k] \in {"inflight"} \cup ReqDone
               \/ pc = "main_ret" /\ pc' = "exited" /\ req'[k] = "cancelled"]_vars

\* Task 1 failed, the pipeline's failure was logged, and task 2 completed
\* afterwards.
C8_Witness ==
    \E m, n \in DOMAIN log :
        /\ m < n
        /\ log[m] = [sev |-> "ERROR",
                     msg |-> <<"Error", [kind |-> "NetworkError", from |-> 1]>>]
        /\ log[n].msg = <<"got response", 2>>

\* C9 as stated: once a pipeline has returned, each of its handles has been
\* awaited exactly once.
C9_AwaitedExactlyOnce ==
    /\ AppReturned => \A k \in Labels : reqAwaited[k] = 1
    /\ CpuReturned => \A i \in Chains : chainAwaited[i] = 1

\* C9 as amended: no handle is ever awaited twice; once a pipeline has
\* returned each of its handles has been awaited exactly once, except that
\* handle 2 of the Fetch Pipeline has never been awaited if task 1 failed.
C9_AwaitedOnceUnlessFirstFails ==
    /\ \A k \in Labels : reqAwaited[k] <= 1
    /\ \A i \in Chains : chainAwaited[i] <= 1
    /\ AppReturned =>
          /\ reqAwaited[1] = 1
          /\ reqAwaited[2] = IF req[1] \in ReqFailed THEN 0 ELSE 1
    /\ CpuReturned => \A i \in Chains : chainAwaited[i] = 1

\* The Fetch+Analyze Pipeline returned a failure and the Fetch Pipeline had
\* returned label 1's failure.
C9_Witness ==
    /\ CpuReturned
    /\ cpuRes.tag = "err"
    /\ appRes.tag = "err"
    /\ appRes.err.from = 1
    /\ reqAwaited[2] = 0

\* C10: a running analysis is on the blocking lane, and while analyses run
\* the fetch steps of every other chain stay enabled.
C10_CpuIsolation ==
    \A i \in Chains :
        chain[i].st = "analyzing" =>
            /\ chain[i].lane = "blocking"
            /\ \A j \in Chains \ {i} :
                  /\ chain[j].st = "spawned" => ENABLED ChainStart(j)
                  /\ chain[j].st = "fetching" => ENABLED FetchOk(j) /\ ENABLED FetchErr(j)
                  /\ chain[j].st = "reading" => ENABLED TextErr(j)

\* An analysis is running while another chain's request is in flight.
C10_Witness ==
    \E i, j \in Chains :
        /\ chain[i].st = "analyzing"
        /\ chain[j].st = "fetching"

Ran(op) == unit.op = op /\ unit.done

\* C11 as stated: request fails, with the cause, when the network request
\* errors and when the response has a non-success status, and succeeds and
\* logs its label only otherwise.
C11_FailsOnErrorAndStatus ==
    Ran("request") =>
        IF unit.net.kind = "err" \/ unit.net.status # 200
        THEN unit.out.res = "neterr" /\ unit.out.log = <<>>
        ELSE unit.out.res = "ok" /\ unit.out.log = <<Info(<<"got response", unit.n>>)>>

\* What request does instead (C11): it fails exactly when the network request
\* errors, and its error carries that cause; it succeeds and logs its label for
\* every response, whatever its status; and the URL slowly builds always parses.
C11_FailsOnNetworkErrorOnly ==
    /\ Ran("request") =>
          IF unit.net.kind = "err"
          THEN /\ unit.out.res = "neterr"
               /\ unit.out.cause = unit.net.cause
               /\ unit.out.log = <<>>
          ELSE /\ unit.out.res = "ok"
               /\ unit.out.log = <<[sev |-> "INFO", msg |-> <<"got response", unit.n>>]>>
    /\ Ran("slowly") => unit.out.ok

\* request has run on a response with status 404 and succeeded (C11).
C11_Witness ==
    /\ Ran("request")
    /\ unit.net.status = 404
    /\ unit.out.res = "ok"

FirstFailedAtAwait == pc = "app_await1" /\ req[1] \in ReqFailed

AppFailureLogged ==
    /\ appRes = ReqFailure(1)
    /\ \E n \in DOMAIN log : log[n] = [sev |-> "ERROR", msg |-> <<"Error", appRes.err>>]

\* C12: once task 1 has completed with a failure, the pipeline's return is
\* enabled whatever task 2 is doing, and with the driver running the
\* pipeline returns label 1's failure and main logs it, even if request 2
\* never completes.
C12_FailsImmediately ==
    /\ [](FirstFailedAtAwait => ENABLED AppAwait1)
    /\ (FirstFailedAtAwait ~> AppFailureLogged)

\* Label 1's failure is logged while request 2 is still in flight.
C12_Witness ==
    /\ AppFailureLogged
    /\ req[2] = "inflight"

DatasetLogged(i) == \E n \in DOMAIN log : log[n].msg = <<"Dataset", i>>
ProcessedLogged(i) == \E n \in DOMAIN log : log[n].msg = <<"Processed", i>>

\* C13: a chain submits analyze at most once, and only in the step in which
\* the body is decoded after a successful fetch; a chain that failed on the
\* fetch or on the decoding has submitted nothing; a chain whose submitted
\* closure failed fails with the join error; and a chain succeeds only with
\* the pair analyze returned for its text.
C13_ChainComposition ==
    /\ [](\A i \in Chains :
            /\ chain[i].submitted <= 1
            /\ chain[i].st \in {"unspawned", "spawned", "fetching", "reading"}
                  => chain[i].submitted = 0
            /\ chain[i].st \in {"analyzing", "analyzed", "blockfail", "ok"}
                  => chain[i].submitted = 1 /\ DatasetLogged(i)
            /\ chain[i].st = "failed" =>
                  /\ chain[i].err.from = i
                  /\ chain[i].err.kind \in {"NetworkError", "DecodeError", "JoinError"}
                  /\ chain[i].err.kind \in {"NetworkError", "DecodeError"}
                        => chain[i].submitted = 0
                  /\ chain[i].err.kind = "JoinError" => chain[i].submitted = 1)
    /\ [][\A i \in Chains :
            /\ chain'[i].submitted # chain[i].submitted
                  => chain[i].st = "reading" /\ chain'[i].st = "analyzing"
            /\ (chain[i].st = "blockfail" /\ chain'[i] # chain[i])
                  => chain'[i].st = "failed" /\ chain'[i].err.kind = "JoinError"
            /\ (chain[i].st = "analyzing" /\ chain'[i].st = "analyzed")
                  => chain'[i].res = <<FoldOnes(chain[i].txt, 0), FoldZeros(chain[i].txt, 0)>>
            /\ (chain[i].st # "ok" /\ chain'[i].st = "ok")
                  => chain[i].st = "analyzed" /\ chain'[i].res = chain[i].res]_vars

\* One chain failed on the decoding, having submitted nothing; another
\* succeeded with the pair of its body.
C13_Witness ==
    \E i, j \in Chains :
        /\ chain[i].st = "failed"
        /\ chain[i].err.kind = "DecodeError"
        /\ chain[i].submitted = 0
        /\ chain[j].st = "ok"
        /\ chain[j].res = <<7, 1>>

\* C14: for every label i, 'Processed i' comes after 'Dataset i' in the log
\* and is there only once chain i's analysis has finished and the chain has
\* returned its pair; the ratio entry comes after every 'Processed i'.
C14_LogOrder ==
    /\ \A i \in Chains :
          /\ \A n \in DOMAIN log :
                log[n].msg = <<"Processed", i>> =>
                   \E m \in 1..(n - 1) : log[m].msg = <<"Dataset", i>>
          /\ ProcessedLogged(i) => chain[i].st = "ok" /\ chain[i].submitted = 1
          /\ Cardinality({n \in DOMAIN log : log[n].msg = <<"Processed", i>>}) <= 1
    /\ \A n \in DOMAIN log :
          log[n].msg[1] = "Ratio of ones/zeros" =>
             \A i \in Chains : \E m \in 1..(n - 1) : log[m].msg = <<"Processed", i>>

\* The ratio is logged in a run in which chain 2 was processed before the
\* dataset of chain 1 had arrived.
C14_Witness ==
    /\ RatioLogged
    /\ \E m, n \in DOMAIN log :
          /\ m < n
          /\ log[m].msg = <<"Processed", 2>>
          /\ log[n].msg = <<"Dataset", 1>>

IsOutcome(e) == e.msg[1] \in {"Done", "Error"}

\* The outcome entries of the log, in order.
OutcomeSeq == SelectSeq(log, IsOutcome)

BeforeAppOutcome ==
    pc \in {"start", "log_start_app", "app_spawn1", "app_spawn2", "app_await1",
            "app_await2", "app_match"}

AfterCpuOutcome == pc \in {"log_finished_cpu", "main_ret"} \/ (pc = "exited" /\ exitCode = 0)

\* C15: the log holds no outcome entry before the Fetch Pipeline has been
\* matched, exactly one - the Fetch Pipeline's - from then until the
\* Fetch+Analyze Pipeline has been matched, and exactly those two afterwards;
\* an entry is an ERROR entry with the error if its pipeline failed and the
\* INFO entry 'Done' if it succeeded; and the Fetch Pipeline's 'Done' comes
\* after both 'got response' entries.
C15_OutcomeLogging ==
    /\ OutcomeSeq =
          IF BeforeAppOutcome \/ (pc = "exited" /\ exitCode # 0) THEN <<>>
          ELSE IF AfterCpuOutcome THEN <<Logged(appRes), Logged(cpuRes)>>
          ELSE <<Logged(appRes)>>
    /\ \A e \in {log[n] : n \in DOMAIN log} :
          IsOutcome(e) => (e.sev = "INFO" <=> e.msg = <<"Done">>)
    /\ (OutcomeSeq # <<>> /\ appRes.tag = "ok") =>
          \E n \in DOMAIN log :
             /\ log[n].msg = <<"Done">>
             /\ \A k \in Labels : \E m \in 1..(n - 1) : log[m].msg = <<"got response", k>>

\* The run has ended with 'Done' for the Fetch Pipeline and an error entry
\* for the Fetch+Analyze Pipeline.
C15_Witness ==
    /\ pc = "exited"
    /\ appRes.tag = "ok"
    /\ cpuRes.tag = "err"
    /\ Len(OutcomeSeq) = 2
    /\ OutcomeSeq[1].sev = "INFO"
    /\ OutcomeSeq[2].sev = "ERROR"

RECURSIVE SumReqIssued(_)
SumReqIssued(n) == IF n = 0 THEN 0 ELSE SumReqIssued(n - 1) + reqIssued[n]

RECURSIVE SumChainIssued(_)
SumChainIssued(n) == IF n = 0 THEN 0 ELSE SumChainIssued(n - 1) + chain[n].issued

\* C16 as stated: a whole run issues exactly NRequests requests in the Fetch
\* Pipeline and exactly NChains in the Fetch+Analyze Pipeline.
C16_ExactCountsPerRun ==
    (pc = "exited" /\ exitCode = 0) =>
        /\ SumReqIssued(NRequests) = NRequests
        /\ SumChainIssued(NChains) = NChains

\* C16, amended: no task ever issues a second request, whatever the first
\* one did; a task that has begun its fetch has issued exactly one; the
\* Fetch+Analyze Pipeline has issued exactly NChains requests when it
\* returns; the Fetch Pipeline has issued exactly NRequests when it returns
\* success or label 2's failure, and at most NRequests in every run.
C16_NoRetries ==
    /\ \A k \in Labels :
          /\ reqIssued[k] <= 1
          /\ (req[k] \in {"inflight"} \cup ReqDone) => reqIssued[k] = 1
          /\ (req[k] \in {"unspawned", "spawned"}) => reqIssued[k] = 0
    /\ \A i \in Chains :
          /\ chain[i].issued <= 1
          /\ (chain[i].st \notin {"unspawned", "spawned"}) <=> chain[i].issued = 1
    /\ CpuReturned => SumChainIssued(NChains) = NChains
    /\ (AppReturned /\ (appRes.tag = "ok" \/ appRes.err.from = NRequests)) =>
          SumReqIssued(NRequests) = NRequests
    /\ SumReqIssued(NRequests) <= NRequests

\* The run has ended; request 1 failed after its single request, request 2
\* was dropped with the runtime before it issued one, and a chain failed after
\* its single request.
C16_Witness ==
    /\ pc = "exited"
    /\ req[1] = "neterr"
    /\ reqIssued[1] = 1
    /\ req[2] = "cancelled"
    /\ reqIssued[2] = 0
    /\ \E i \in Chains : chain[i].st = "failed" /\ chain[i].issued = 1

\* The network call of chain i has been issued and has not completed.
FetchPending(i) == chain[i].st = "fetching"

\* C17: while the network call of any chain is pending, app_cpu_intensive is
\* still at its spawn loop or blocked in join_all, join_all cannot complete,
\* no result has been scanned, the pipeline has no result and no outcome
\* entry for it is in the log - whether or not another chain has already
\* failed. A call that stays pending forever therefore keeps the pipeline
\* from ever reporting.
C17_HungFetchBlocksOutcome ==
    \A i \in Chains :
        FetchPending(i) =>
            /\ pc \in {"cpu_spawn", "cpu_join"}
            /\ ~ENABLED CpuJoinAll
            /\ results = <<>>
            /\ cpuRes.tag = "none"
            /\ Len(OutcomeSeq) <= 1
            /\ ~RatioLogged

\* join_all is being awaited, one chain has already failed and another
\* chain's network call is still pending.
C17_Witness ==
    /\ pc = "cpu_join"
    /\ \E i, j \in Chains :
          /\ chain[i].st \in {"failed", "panicked"}
          /\ FetchPending(j)

\* C18: for every byte sequence analyze is run on, it returns a pair of
\* naturals whose sum is 8 times the length of the sequence.
C18_OnesPlusZeros ==
    Ran("analyze") =>
        /\ unit.out.pair \in Nat \X Nat
        /\ unit.out.pair[1] + unit.out.pair[2] = 8 * Len(unit.txt)

\* analyze has run on a sequence of the greatest length that holds both set
\* and clear bits.
C18_Witness ==
    /\ Ran("analyze")
    /\ Len(unit.txt) = MaxLen
    /\ unit.out.pair[1] > 0
    /\ unit.out.pair[2] > 0

AllBytes(txt, b) == \A n \in DOMAIN txt : txt[n] = b

\* C19: analyze returns (0, 8a) on a bytes of 0x00, (8a, 0) on a bytes of
\* 0xFF, and (0, 0) on the empty sequence.
C19_UniformPayloads ==
    Ran("analyze") =>
        /\ AllBytes(unit.txt, 0) => unit.out.pair = <<0, 8 * Len(unit.txt)>>
        /\ AllBytes(unit.txt, 255) => unit.out.pair = <<8 * Len(unit.txt), 0>>
        /\ unit.txt = <<>> => unit.out.pair = <<0, 0>>

\* analyze has run on the longest sequence of 0xFF bytes.
C19_Witness ==
    /\ Ran("analyze")
    /\ Len(unit.txt) = MaxLen
    /\ AllBytes(unit.txt, 255)

\* C20: under fair scheduling every run ends, and once the runtime has been
\* created both pipelines return and main exits with 0, whatever each request
\* task, chain and analysis does.
C20_Termination ==
    /\ <>(pc = "exited")
    /\ (pc = "log_start_app") ~>
          (pc = "exited" /\ exitCode = 0 /\ AppReturned /\ CpuReturned)

\* The run has ended after a request task panicked, a chain failed at its
\* fetch and an analysis panicked.
C20_Witness ==
    /\ pc = "exited"
    /\ exitCode = 0
    /\ AppReturned
    /\ CpuReturned
    /\ \E k \in Labels : req[k] = "panicked"
    /\ \E i, j \in Chains :
          /\ chain[i].st = "failed"
          /\ chain[i].err.kind = "NetworkError"
          /\ chain[j].st = "failed"
          /\ chain[j].err.kind = "JoinError"

====
